---- MODULE Spec2Model ----
(***************************************************************************)
(* Four Corner (Sijiao) lookup: the prefix index (Trie), the ingestion of  *)
(* the pipe-delimited dataset (processCSV) and the query state of App, as  *)
(* written in src/sijiao_lookup/src/App.jsx.                               *)
(*                                                                         *)
(* A JavaScript string is modelled as the sequence of its characters, each *)
(* character a one-character TLA+ string; a raw text is modelled as the    *)
(* sequence of its lines, i.e. as the value of text.split('\n').           *)
(***************************************************************************)
EXTENDS Integers, Sequences, FiniteSets, Bags, TLC

VARIABLES
    trie,          \* useState(null): the published Trie, or NoTrie
    inputCode,     \* useState(""): the current query
    results,       \* useState([]): the exposed result list
    loading,       \* useState(true)
    error,         \* useState(null): Null or an error description
    datasetSize,   \* useState(0): the accepted count of the published index
    showUploader,  \* useState(false): the request for manually supplied input
    fetchState,    \* the start-up fetch(DATA_URL): "pending" or "done"
    reads,         \* the FileReader reads in flight: a bag of raw texts
    lastText,      \* history: the raw text given to the latest processCSV
    inserted       \* history: the <<code, data>> pairs given to Trie.insert

vars == <<trie, inputCode, results, loading, error, datasetSize, showUploader,
          fetchState, reads, lastText, inserted>>

-----------------------------------------------------------------------------
(* Characters and strings *)

Digits == {"0", "1", "2", "3", "4", "5", "6", "7", "8", "9"}

DigitVal ==
    [c \in Digits |->
        CASE c = "0" -> 0 [] c = "1" -> 1 [] c = "2" -> 2 [] c = "3" -> 3
          [] c = "4" -> 4 [] c = "5" -> 5 [] c = "6" -> 6 [] c = "7" -> 7
          [] c = "8" -> 8 [] c = "9" -> 9]

\* JavaScript null, the value of `error` when no error is shown
Null == "null"

\* No raw text: a raw text has at least one line (''.split('\n') is [''])
NoText == << >>

\* The value of `trie` before any index is published (useState(null)); a Trie
\* always has its root, so no Trie equals the function with no node at all.
NoTrie == << >>

\* /^\d+$/.test(s)
AllDigits(s) == Len(s) > 0 /\ \A i \in 1..Len(s) : s[i] \in Digits

\* s.startsWith(p)
StartsWith(s, p) == Len(p) <= Len(s) /\ SubSeq(s, 1, Len(p)) = p

-----------------------------------------------------------------------------
(* class TrieNode, class Trie.  A Trie is the function from the path of    *)
(* each node (the characters on the edges from the root) to the node; a    *)
(* node holds `characters` and the keys of `children` in for-in order.     *)

TrieNode == [children |-> << >>, characters |-> << >>]

NewTrie == (<< >> :> TrieNode)

\* node.children[char] is defined
HasChild(t, path, c) ==
    \E i \in 1..Len(t[path].children) : t[path].children[i] = c

\* The for-in order of an object's own keys after key c is added: the
\* integer-like keys in ascending numeric order, then the others as created.
BeforeKey(k, c) == k \in Digits /\ DigitVal[k] < DigitVal[c]

AddKey(keys, c) ==
    IF c \in Digits
    THEN SelectSeq(keys, LAMBDA k : BeforeKey(k, c)) \o <<c>>
            \o SelectSeq(keys, LAMBDA k : ~BeforeKey(k, c))
    ELSE Append(keys, c)

\* The body of the loop of insert: one step down, creating the child if absent
Descend(t, path, c) ==
    IF HasChild(t, path, c)
    THEN t
    ELSE [t EXCEPT ![path].children = AddKey(@, c)] @@ (Append(path, c) :> TrieNode)

RECURSIVE InsertFrom(_, _, _, _)
InsertFrom(t, path, rest, rec) ==
    IF rest = << >>
    THEN [t EXCEPT ![path].characters = Append(@, rec)]
    ELSE InsertFrom(Descend(t, path, Head(rest)), Append(path, Head(rest)),
                    Tail(rest), rec)

\* { ...data, code }
Stored(data, code) ==
    [char |-> data.char, def |-> data.def, cantonese |-> data.cantonese,
     pinyin |-> data.pinyin, code |-> code]

\* Trie.insert(code, data)
Insert(t, code, data) ==
    IF code = << >> THEN t ELSE InsertFrom(t, << >>, code, Stored(data, code))

RECURSIVE CollectAll(_, _)
RECURSIVE CollectChildren(_, _, _)

\* The for-in loop of collectAll over node.children, from the i-th key on
CollectChildren(t, path, i) ==
    IF i > Len(t[path].children)
    THEN << >>
    ELSE CollectAll(t, Append(path, t[path].children[i]))
            \o CollectChildren(t, path, i + 1)

\* Variant of collectAll that leaves the descendants out
CollectOwn(t, path) == t[path].characters

\* Trie.collectAll(node)
CollectAll(t, path) == t[path].characters \o CollectChildren(t, path, 1)

\* The walk of search: the path reached from `path` along `rest`, or none
RECURSIVE Walk(_, _, _)
Walk(t, path, rest) ==
    IF rest = << >>
    THEN [found |-> TRUE, path |-> path]
    ELSE IF ~HasChild(t, path, Head(rest))
         THEN [found |-> FALSE, path |-> path]
         ELSE Walk(t, Append(path, Head(rest)), Tail(rest))

\* Variant of search that returns nothing for the empty prefix
SearchEmptyGuard(t, prefix) ==
    IF prefix = << >> \/ ~Walk(t, << >>, prefix).found
    THEN << >>
    ELSE CollectAll(t, Walk(t, << >>, prefix).path)

\* Trie.search(prefix)
Search(t, prefix) ==
    IF Walk(t, << >>, prefix).found
    THEN CollectAll(t, Walk(t, << >>, prefix).path)
    ELSE << >>

-----------------------------------------------------------------------------
(* The Trie on its own: any sequence of insert calls on a new Trie *)

MaxInserts == 3

TrieCodes == {<< >>, <<"1">>, <<"1", "2">>, <<"1", "2", "1">>, <<"2", "1">>,
              <<"0">>, <<"a">>, <<"a", "1">>}

TrieData ==
    {[char |-> <<g>>, def |-> <<"d">>, cantonese |-> << >>, pinyin |-> <<"p">>] :
        g \in {"X", "Y"}}

\* The prefixes searched: every prefix of length <= 3 over the characters used
PrefixChars == {"0", "1", "2", "a"}

Prefixes ==
    {<< >>} \cup {<<a>> : a \in PrefixChars}
        \cup {<<a, b>> : a \in PrefixChars, b \in PrefixChars}
        \cup {<<a, b, c>> : a \in {"1"}, b \in PrefixChars, c \in PrefixChars}

AppIdle ==
    /\ inputCode = << >>
    /\ results = << >>
    /\ loading = TRUE
    /\ error = Null
    /\ datasetSize = 0
    /\ showUploader = FALSE
    /\ fetchState = "pending"
    /\ reads = EmptyBag
    /\ lastText = NoText

InitTrie ==
    /\ trie = NewTrie
    /\ inserted = << >>
    /\ AppIdle

TrieInsert(code, data) ==
    /\ Len(inserted) < MaxInserts
    /\ trie' = Insert(trie, code, data)
    /\ inserted' = Append(inserted, <<code, data>>)
    /\ UNCHANGED <<inputCode, results, loading, error, datasetSize, showUploader,
                   fetchState, reads, lastText>>

NextTrie == \E code \in TrieCodes, data \in TrieData : TrieInsert(code, data)

SpecTrie == InitTrie /\ [][NextTrie]_vars

\* The number of times x occurs in the sequence s
Count(s, x) == Cardinality({i \in 1..Len(s) : s[i] = x})

\* The records a sequence of insert calls puts under codes starting with p
LoggedUnder(p) ==
    LET hits == SelectSeq(inserted, LAMBDA e : e[1] # << >> /\ StartsWith(e[1], p))
    IN  [i \in 1..Len(hits) |-> Stored(hits[i][2], hits[i][1])]

SameBag(s, u) ==
    /\ Len(s) = Len(u)
    /\ \A i \in 1..Len(s) : Count(s, s[i]) = Count(u, s[i])

\* C1: for every non-empty prefix p, search(p) returns exactly the inserted
\* records whose code starts with p, each once per insert (duplicates kept), and
\* the empty sequence when no inserted code starts with p.
C1_SearchExact ==
    \A p \in Prefixes \ {<< >>} : SameBag(Search(trie, p), LoggedUnder(p))

\* C1 witness: two inserts under one code and one under a longer code, searched
\* by a prefix that also misses another inserted code
C1_Witness ==
    /\ Len(inserted) = 3
    /\ Len(Search(trie, <<"1", "2">>)) = 3
    /\ Len(Search(trie, <<"1", "2", "1">>)) = 1
    /\ Len(Search(trie, <<"2">>)) = 0

\* C2 (as claimed): search("") returns the empty sequence whatever was inserted
C2_EmptyPrefixEmpty == Search(trie, << >>) = << >>

\* C2 (amended): Trie.search("") returns every record inserted under a non-empty
\* code, i.e. the whole index, so it is non-empty once a record is stored
C2_EmptyPrefixAll == SameBag(Search(trie, << >>), LoggedUnder(<< >>))

\* C2 witness: the empty code and two others inserted, search("") returns two
C2_Witness ==
    /\ Len(inserted) = 3
    /\ Len(Search(trie, << >>)) = 2
    /\ \E i \in 1..3 : inserted[i][1] = << >>

-----------------------------------------------------------------------------
(* processCSV: column detection, row validation, construction of the index *)

SampleLines == 50      \* Math.min(lines.length, 50)
MinColumns == 5        \* if (cols.length < 5) continue
CodeMinDigits == 4     \* /^\d{4,5}$/
CodeMaxDigits == 5     \* /^\d{4,5}$/
CharColumn == 0        \* columns[0]
CantoneseColumn == 1   \* columns[1]
DefinitionColumn == 2  \* columns[2]
PinyinColumn == 9      \* columns[9]

Min(a, b) == IF a < b THEN a ELSE b

Whitespace == {" ", "\t", "\r"}

\* s.trim()
RECURSIVE TrimLeft(_)
TrimLeft(s) ==
    IF s # << >> /\ Head(s) \in Whitespace THEN TrimLeft(Tail(s)) ELSE s

RECURSIVE TrimRight(_)
TrimRight(s) ==
    IF s # << >> /\ s[Len(s)] \in Whitespace
    THEN TrimRight(SubSeq(s, 1, Len(s) - 1))
    ELSE s

Trim(s) == TrimRight(TrimLeft(s))

\* s.indexOf('|', i - 1) + 1: the place of the first '|' at or after place i,
\* or 0 when there is none
RECURSIVE IndexOfBar(_, _)
IndexOfBar(s, i) ==
    IF i > Len(s) THEN 0
    ELSE IF s[i] = "|" THEN i
    ELSE IndexOfBar(s, i + 1)

\* The columns of s from place i on
RECURSIVE SplitFrom(_, _)
SplitFrom(s, i) ==
    IF IndexOfBar(s, i) = 0
    THEN <<SubSeq(s, i, Len(s))>>
    ELSE <<SubSeq(s, i, IndexOfBar(s, i) - 1)>> \o SplitFrom(s, IndexOfBar(s, i) + 1)

\* s.split('|'): always at least one column
Split(s) == SplitFrom(s, 1)

\* cols[j], with j counted from 0 as in the source, is a non-empty string
\* (an index past the end gives undefined, which is falsy like "")
Truthy(cols, j) == j < Len(cols) /\ cols[j + 1] # << >>

\* /^\d{4,5}$/.test(s)
IsCodeShaped(s) == AllDigits(s) /\ Len(s) >= CodeMinDigits /\ Len(s) <= CodeMaxDigits

\* The inner loop of the detection: the first j with a code-shaped cols[j], or -1
RECURSIVE FirstCodeColumn(_, _)
FirstCodeColumn(cols, j) ==
    IF j >= Len(cols) THEN -1
    ELSE IF IsCodeShaped(cols[j + 1]) THEN j
    ELSE FirstCodeColumn(cols, j + 1)

\* Variant of the outer loop that does not skip the lines of few columns
RECURSIVE DetectNoMinColumns(_, _)
DetectNoMinColumns(lines, i) ==
    IF i >= Min(Len(lines), SampleLines) THEN -1
    ELSE LET cols == Split(lines[i + 1])
         IN  IF FirstCodeColumn(cols, 0) # -1 THEN FirstCodeColumn(cols, 0)
             ELSE DetectNoMinColumns(lines, i + 1)

\* The outer loop of the detection from line i (counted from 0) on
RECURSIVE DetectFrom(_, _)
DetectFrom(lines, i) ==
    IF i >= Min(Len(lines), SampleLines) THEN -1
    ELSE LET cols == Split(lines[i + 1])
         IN  IF Len(cols) < MinColumns THEN DetectFrom(lines, i + 1)
             ELSE IF FirstCodeColumn(cols, 0) # -1 THEN FirstCodeColumn(cols, 0)
             ELSE DetectFrom(lines, i + 1)

DetectCodeIndex(lines) == DetectFrom(lines, 0)

\* Variant of the validation that wants the code to be of 4 or 5 digits
AcceptsCodeShaped(columns, codeIndex) ==
    /\ Truthy(columns, CharColumn)
    /\ Truthy(columns, codeIndex)
    /\ IsCodeShaped(columns[codeIndex + 1])
    /\ Truthy(columns, DefinitionColumn)
    /\ Truthy(columns, PinyinColumn)

\* if (char && code && /^\d+$/.test(code) && definition && pinyin)
Accepts(columns, codeIndex) ==
    /\ Truthy(columns, CharColumn)
    /\ Truthy(columns, codeIndex)
    /\ AllDigits(columns[codeIndex + 1])
    /\ Truthy(columns, DefinitionColumn)
    /\ Truthy(columns, PinyinColumn)

\* { char, def: definition, cantonese, pinyin }
RowData(columns) ==
    [char |-> columns[CharColumn + 1], def |-> columns[DefinitionColumn + 1],
     cantonese |-> columns[CantoneseColumn + 1], pinyin |-> columns[PinyinColumn + 1]]

\* One iteration of the row loop, on the raw line, with acc = (newTrie, count)
RowStep(acc, rawLine, codeIndex) ==
    LET line == Trim(rawLine)
        columns == Split(line)
    IN  IF line = << >> THEN acc
        ELSE IF Accepts(columns, codeIndex)
             THEN [trie |-> Insert(acc.trie, columns[codeIndex + 1], RowData(columns)),
                   count |-> acc.count + 1]
             ELSE acc

\* The iterations lo..hi of the row loop (lines counted from 1), in order.  The
\* range is halved, and the outcome of the first half is bound as a value before
\* the second half starts, so that the evaluation stays shallow.
RECURSIVE RowLoop(_, _, _, _, _)
RowLoop(acc, lines, lo, hi, codeIndex) ==
    IF lo > hi THEN acc
    ELSE IF lo = hi THEN RowStep(acc, lines[lo], codeIndex)
    ELSE LET mid == (lo + hi) \div 2
         IN  CHOOSE out \in {RowLoop(half, lines, mid + 1, hi, codeIndex) :
                                half \in {RowLoop(acc, lines, lo, mid, codeIndex)}} : TRUE

DetectError == "Could not automatically detect the Four Corner Code column in the CSV."

FetchError == "Could not auto-load data (likely CORS). Please download the CSV manually and upload it below."

\* The try block of processCSV up to the publication: what it would publish,
\* or the message of the Error it throws
Parse(lines) ==
    LET codeIndex == DetectCodeIndex(lines)
    IN  IF codeIndex = -1
        THEN [ok |-> FALSE, message |-> DetectError, trie |-> NoTrie, count |-> 0]
        ELSE LET b == RowLoop([trie |-> NewTrie, count |-> 0], lines, 1, Len(lines),
                               codeIndex)
             IN  [ok |-> TRUE, message |-> Null, trie |-> b.trie, count |-> b.count]

-----------------------------------------------------------------------------
(* The search effect: useEffect(..., [inputCode, trie]) *)

ResultLimit == 100     \* matches.slice(0, 100)
QueryMaxDigits == 5    \* if (inputCode.length < 5)

\* a.localeCompare(b) on strings of digits: the sign of the comparison by the
\* first differing digit, a proper prefix before its extensions
RECURSIVE LocaleCompare(_, _)
LocaleCompare(a, b) ==
    IF a = << >> /\ b = << >> THEN 0
    ELSE IF a = << >> THEN -1
    ELSE IF b = << >> THEN 1
    ELSE IF DigitVal[Head(a)] < DigitVal[Head(b)] THEN -1
    ELSE IF DigitVal[Head(a)] > DigitVal[Head(b)] THEN 1
    ELSE LocaleCompare(Tail(a), Tail(b))

\* Variant of the comparator with the codes in descending order
CompareDescending(a, b, q) ==
    IF a.code = q /\ b.code # q THEN -1
    ELSE IF b.code = q /\ a.code # q THEN 1
    ELSE LocaleCompare(b.code, a.code)

\* The comparator given to matches.sort
Compare(a, b, q) ==
    IF a.code = q /\ b.code # q THEN -1
    ELSE IF b.code = q /\ a.code # q THEN 1
    ELSE LocaleCompare(a.code, b.code)

\* The place (from 0) at which a stable sort leaves matches[i]: the number of
\* elements that compare lower, or equal and stand before it
Rank(matches, q) ==
    [i \in 1..Len(matches) |->
        Cardinality({j \in 1..Len(matches) :
            IF j < i
            THEN Compare(matches[j], matches[i], q) <= 0
            ELSE Compare(matches[j], matches[i], q) < 0})]

\* matches.sort((a, b) => ...); Array.prototype.sort is stable.  The ranks are
\* bound as a value, so that they are computed once.
SortMatches(matches, q) ==
    CHOOSE sorted \in
        {[p \in 1..Len(matches) |->
            matches[CHOOSE i \in 1..Len(matches) : rank[i] = p - 1]] :
                rank \in {Rank(matches, q)}} : TRUE

\* matches.slice(0, 100)
Slice(s, n) == SubSeq(s, 1, Min(Len(s), n))

\* The body of the search effect: the value of `results` after it ran
SearchEffect(t, q, prev) ==
    IF t = NoTrie THEN prev
    ELSE IF Len(q) = 0 THEN << >>
    ELSE CHOOSE shown \in {Slice(SortMatches(matches, q), ResultLimit) :
                                matches \in {Search(t, q)}} : TRUE

\* Variant of the render whose effect depends on inputCode only
RenderNoTrieDep(t, q, trieChanged) ==
    IF q # inputCode THEN SearchEffect(t, q, results) ELSE results

\* The value of `results` once the render after a handler has run its effects:
\* the search effect runs again when inputCode or trie changed
Render(t, q, trieChanged) ==
    IF trieChanged \/ q # inputCode THEN SearchEffect(t, q, results) ELSE results

-----------------------------------------------------------------------------
(* Raw texts given to the model *)

\* cols.join('|')
RECURSIVE Join(_)
Join(cols) ==
    IF Len(cols) = 1 THEN cols[1] ELSE cols[1] \o <<"|">> \o Join(Tail(cols))

\* A row laid out as the reference dataset: 11 columns, the code in the last
Row(char, def, pinyin, code) ==
    Join(<<char, <<"c">>, def, << >>, << >>, << >>, << >>, << >>, << >>, pinyin, code>>)

\* n copies of line
Repeat(line, n) == [i \in 1..n |-> line]

D1212 == <<"1", "2", "1", "2">>
D12121 == <<"1", "2", "1", "2", "1">>
D121212 == <<"1", "2", "1", "2", "1", "2">>
D212 == <<"2", "1", "2">>

\* The lines the texts of the ingestion runs end with
CsvLines ==
    { Row(<<"A">>, <<"d">>, <<"p">>, D1212),
      Row(<<"C">>, <<"d">>, <<"p">>, D121212),
      Row(<<"D">>, <<"d">>, <<"p">>, <<"1", "2", "a", "2">>),
      Row(<<"E">>, <<"d">>, << >>, D1212),
      Row(<<"F">>, << >>, <<"p">>, D1212),
      Row(<< >>, <<"d">>, <<"p">>, D1212),
      Join(<<<<"x">>, D1212>>),
      Join(<<<<"G">>, <<"c">>, <<"d">>, D12121, <<"e">>>>),
      <<" ">> \o Row(<<"H">>, <<"d">>, <<"p">>, D1212) \o <<" ", "\r">>,
      <<" ", "\t">> }

\* What the texts of the ingestion runs start with: nothing, or one line
\* repeated up to the end of the detection sample or one line short of it
Pads ==
    { << >>,
      Repeat(Join(<<<<"x">>, D1212>>), SampleLines - 1),
      Repeat(Join(<<<<"x">>, D1212>>), SampleLines),
      Repeat(Row(<<"P">>, <<"d">>, <<"p">>, D212), SampleLines - 1) }

MaxTail == 2

RECURSIVE Tails(_)
Tails(n) ==
    IF n = 1 THEN {<<l>> : l \in CsvLines}
    ELSE Tails(n - 1) \cup {Append(t, l) : t \in Tails(n - 1), l \in CsvLines}

CsvTexts == {pad \o tail : pad \in Pads, tail \in Tails(MaxTail)}

\* The texts of the application runs
TextUndetected == <<Row(<<"A">>, <<"d">>, <<"p">>, D212), Join(<<<<"x">>, D1212>>)>>

TextNoRows == <<Join(<<<<"G">>, <<"c">>, <<"d">>, D12121, <<"e">>>>)>>

TextSmall ==
    << Row(<<"A">>, <<"d">>, <<"p">>, D12121),
       Row(<<"B">>, <<"d">>, <<"p">>, D1212),
       Row(<<"C">>, <<"d">>, <<"p">>, <<"1", "2">>),
       Row(<<"D">>, <<"d">>, <<"p">>, D1212),
       Row(<<"E">>, <<"d">>, <<"p">>, <<"1", "1", "3">>),
       Row(<<"F">>, <<"d">>, << >>, <<"1", "2", "2">>),
       << >>,
       Row(<<"G">>, <<"d">>, <<"p">>, <<"2">>) >>

\* More rows under one code than the result list shows; the code column is
\* found on the first line, the codes of the other rows are shorter
TextLarge ==
    <<Row(<<"Z">>, <<"d">>, <<"p">>, <<"2", "2", "2", "2">>),
      Row(<<"B">>, <<"d">>, <<"p">>, <<"1">>)>>
        \o Repeat(Row(<<"A">>, <<"d">>, <<"p">>, <<"1">>), ResultLimit)
        \o <<Row(<<"C">>, <<"d">>, <<"p">>, <<"1", "1">>),
             Row(<<"D">>, <<"d">>, <<"p">>, <<"1">>)>>

AppTexts == {TextUndetected, TextNoRows, TextSmall, TextLarge}

\* Parse on the texts of the application runs, tabulated: computed once
ParsedAppTexts == [text \in AppTexts |-> Parse(text)]

\* What the try block of processCSV(text) comes to
Outcome(text) == IF text \in AppTexts THEN ParsedAppTexts[text] ELSE Parse(text)

\* The keys pressed, among the ten of the keypad
Keys == {"1", "2"}

-----------------------------------------------------------------------------
(* App: the handlers, each with the render that follows it *)

\* Variant of processCSV that publishes its count and a new Trie when it fails
ProcessCSVPublishOnError(text) ==
    \E r \in {Outcome(text)} :
        /\ lastText' = text
        /\ trie' = IF r.ok THEN r.trie ELSE NewTrie
        /\ datasetSize' = r.count
        /\ loading' = FALSE
        /\ error' = r.message
        /\ showUploader' = ~r.ok
        /\ results' = Render(trie', inputCode, TRUE)

\* Variant of processCSV that leaves error and showUploader on success
ProcessCSVKeepError(text) ==
    \E r \in {Outcome(text)} :
        /\ lastText' = text
        /\ IF r.ok
           THEN /\ trie' = r.trie
                /\ datasetSize' = r.count
                /\ loading' = FALSE
                /\ results' = Render(r.trie, inputCode, TRUE)
                /\ UNCHANGED <<error, showUploader>>
           ELSE /\ error' = r.message
                /\ loading' = FALSE
                /\ showUploader' = TRUE
                /\ UNCHANGED <<trie, datasetSize, results>>

\* processCSV(text), with the render that follows it
ProcessCSV(text) ==
    \E r \in {Outcome(text)} :
        /\ lastText' = text
        /\ IF r.ok
           THEN /\ trie' = r.trie
                /\ datasetSize' = r.count
                /\ loading' = FALSE
                /\ error' = Null
                /\ showUploader' = FALSE
                /\ results' = Render(r.trie, inputCode, TRUE)
           ELSE /\ error' = r.message
                /\ loading' = FALSE
                /\ showUploader' = TRUE
                /\ UNCHANGED <<trie, datasetSize, results>>

\* fetchData: the response is ok and its text arrives
FetchResolve(text) ==
    /\ fetchState = "pending"
    /\ fetchState' = "done"
    /\ ProcessCSV(text)
    /\ UNCHANGED <<inputCode, reads, inserted>>

\* fetchData: fetch rejects, the status is not ok, or reading the body rejects
FetchReject ==
    /\ fetchState = "pending"
    /\ fetchState' = "done"
    /\ loading' = FALSE
    /\ showUploader' = TRUE
    /\ error' = FetchError
    /\ UNCHANGED <<trie, inputCode, results, datasetSize, reads, lastText, inserted>>

\* The file input is rendered only under {error && ...} and {showUploader && ...}
UploaderShown == error # Null /\ showUploader

\* Variant of handleKeyPress that appends up to a length of 5 included
HandleKeyPressOffByOne(key) ==
    /\ inputCode' = IF Len(inputCode) <= QueryMaxDigits
                    THEN Append(inputCode, key)
                    ELSE inputCode
    /\ results' = Render(trie, inputCode', FALSE)
    /\ UNCHANGED <<trie, loading, error, datasetSize, showUploader, fetchState,
                   reads, lastText, inserted>>

\* handleKeyPress(key)
HandleKeyPress(key) ==
    /\ inputCode' = IF Len(inputCode) < QueryMaxDigits
                    THEN Append(inputCode, key)
                    ELSE inputCode
    /\ results' = Render(trie, inputCode', FALSE)
    /\ UNCHANGED <<trie, loading, error, datasetSize, showUploader, fetchState,
                   reads, lastText, inserted>>

\* handleDelete(): prev.slice(0, -1)
HandleDelete ==
    /\ inputCode' = SubSeq(inputCode, 1, Len(inputCode) - 1)
    /\ results' = Render(trie, inputCode', FALSE)
    /\ UNCHANGED <<trie, loading, error, datasetSize, showUploader, fetchState,
                   reads, lastText, inserted>>

\* handleClear()
HandleClear ==
    /\ inputCode' = << >>
    /\ results' = Render(trie, inputCode', FALSE)
    /\ UNCHANGED <<trie, loading, error, datasetSize, showUploader, fetchState,
                   reads, lastText, inserted>>

MaxReads == 2

\* handleFileUpload(event) with event.target.files[0] = file (NoText: no file)
HandleFileUpload(file) ==
    /\ UploaderShown
    /\ BagCardinality(reads) < MaxReads
    /\ IF file = NoText
       THEN UNCHANGED <<loading, reads>>
       ELSE /\ loading' = TRUE
            /\ reads' = reads (+) SetToBag({file})
    /\ UNCHANGED <<trie, inputCode, results, error, datasetSize, showUploader,
                   fetchState, lastText, inserted>>

\* reader.onload: a read in flight delivers its text
ReaderLoad(text) ==
    /\ BagIn(text, reads)
    /\ reads' = reads (-) SetToBag({text})
    /\ ProcessCSV(text)
    /\ UNCHANGED <<inputCode, fetchState, inserted>>

\* A read in flight fails: the reader has no onerror handler, nothing runs
ReaderFail(text) ==
    /\ BagIn(text, reads)
    /\ reads' = reads (-) SetToBag({text})
    /\ UNCHANGED <<trie, inputCode, results, loading, error, datasetSize,
                   showUploader, fetchState, lastText, inserted>>

-----------------------------------------------------------------------------
(* The application *)

Init ==
    /\ trie = NoTrie
    /\ inserted = << >>
    /\ AppIdle

Ingestion ==
    \/ \E text \in AppTexts : FetchResolve(text)
    \/ FetchReject
    \/ \E file \in AppTexts \cup {NoText} : HandleFileUpload(file)
    \/ \E text \in AppTexts : ReaderLoad(text)
    \/ \E text \in AppTexts : ReaderFail(text)

Query ==
    \/ \E key \in Keys : HandleKeyPress(key)
    \/ HandleDelete
    \/ HandleClear

Next == Ingestion \/ Query

Spec == Init /\ [][Next]_vars

\* One ingestion of any of the texts CsvTexts, as the start-up fetch delivers it
NextCsv == \E text \in CsvTexts : FetchResolve(text)

SpecCsv == Init /\ [][NextCsv]_vars

-----------------------------------------------------------------------------
(* Ingestion: the claims about processCSV, under SpecCsv *)

\* The columns of every line of the text as the detection sees them (untrimmed)
RawColumns(text) == [i \in 1..Len(text) |-> Split(text[i])]

\* The columns of every line of the text as the row loop sees them (trimmed)
RowColumns(text) == [i \in 1..Len(text) |-> Split(Trim(text[i]))]

\* Exactly 4 or 5 ASCII digits
FourOrFiveDigits(s) == Len(s) \in {4, 5} /\ \A n \in 1..Len(s) : s[n] \in Digits

\* The <<line, column>> pairs (columns from 0) the detection may stop at, given
\* the untrimmed columns of the lines
Hits(raw) ==
    UNION {{<<i, j>> : j \in {c \in 0..(Len(raw[i]) - 1) : FourOrFiveDigits(raw[i][c + 1])}} :
              i \in {l \in 1..Min(Len(raw), 50) : Len(raw[l]) >= 5}}

\* In line order, then column order
Earlier(h, g) == h[1] < g[1] \/ (h[1] = g[1] /\ h[2] <= g[2])

\* Every record of the index
AllStored(t) ==
    UNION {{t[path].characters[n] : n \in 1..Len(t[path].characters)} : path \in DOMAIN t}

ValidRow(cols, k) ==
    /\ cols # << << >> >>
    /\ Len(cols) > 9 /\ Len(cols) > k
    /\ cols[1] # << >> /\ cols[3] # << >> /\ cols[10] # << >>
    /\ cols[k + 1] # << >>
    /\ \A n \in 1..Len(cols[k + 1]) : cols[k + 1][n] \in Digits

\* The record of an accepted row
RecordOf(cols, k) ==
    [char |-> cols[1], def |-> cols[3], cantonese |-> cols[2], pinyin |-> cols[10],
     code |-> cols[k + 1]]

\* The records of the valid rows whose code is `code`, in line order
RecordsOf(rows, k, code) ==
    LET at == SelectSeq([i \in 1..Len(rows) |-> i],
                        LAMBDA i : ValidRow(rows[i], k) /\ rows[i][k + 1] = code)
    IN  [n \in 1..Len(at) |-> RecordOf(rows[at[n]], k)]

\* C3: when the detection succeeds with column k, the accepted count is the
\* number of non-blank trimmed lines with columns 0, 2 and 9 non-empty and column
\* k all digits (of any length), and the index holds one record per such line
\* under its code and nothing else; rejected lines change neither.
C3_AcceptedRows ==
    (lastText # NoText /\ error = Null) =>
        \E k \in {DetectCodeIndex(lastText)}, rows \in {RowColumns(lastText)} :
            /\ k >= 0
            /\ datasetSize = Cardinality({i \in 1..Len(rows) : ValidRow(rows[i], k)})
            /\ \A i \in 1..Len(rows) :
                  ValidRow(rows[i], k) => rows[i][k + 1] \in DOMAIN trie
            /\ \A path \in DOMAIN trie :
                  SameBag(trie[path].characters, RecordsOf(rows, k, path))

\* C3 witness: an ingestion that accepted some rows, one of them with a code of
\* more than 5 digits, and rejected others
C3_Witness ==
    /\ lastText # NoText
    /\ error = Null
    /\ datasetSize >= 1
    /\ \E i \in 1..Len(lastText) :
          /\ Trim(lastText[i]) # << >>
          /\ ~ValidRow(Split(Trim(lastText[i])), DetectCodeIndex(lastText))
    /\ \E r \in AllStored(trie) : Len(r.code) > 5

-----------------------------------------------------------------------------
(* The application: the claims about the query and the result list, under Spec *)

\* a is before b or equal to it in the lexical order of strings of digits
LexLeq(a, b) ==
    \/ StartsWith(b, a)
    \/ \E n \in 1..Min(Len(a), Len(b)) :
          /\ SubSeq(a, 1, n - 1) = SubSeq(b, 1, n - 1)
          /\ DigitVal[a[n]] < DigitVal[b[n]]

\* The records of s whose code is c, in the order of s
WithCode(s, c) == SelectSeq(s, LAMBDA r : r.code = c)

C6_QueryCapped ==
    /\ [](Len(inputCode) <= 5 /\ \A i \in 1..Len(inputCode) : inputCode[i] \in Digits)
    /\ [][\A key \in Keys :
            (Len(inputCode) = 5 /\ HandleKeyPress(key)) => inputCode' = inputCode]_vars

\* C6 witness: a query of 5 digits while a read is in flight
C6_Witness == Len(inputCode) = 5 /\ reads # EmptyBag

\* The places <<path, n>> of the records of the index whose code starts with q
MatchPlaces(t, q) ==
    UNION {{<<path, n>> : n \in 1..Len(t[path].characters)} :
              path \in {p \in DOMAIN t : StartsWith(p, q)}}

\* C7: once an index is published the result list is always that of the current
\* query on the current index: empty for the empty query, otherwise the first
\* 100 of the ordered matches, so never more than 100 and never the matches of
\* an earlier query or of a replaced index.
C7_ResultsCurrent ==
    trie # NoTrie =>
        IF inputCode = << >>
        THEN results = << >>
        ELSE /\ Len(results) = Min(100, Cardinality(MatchPlaces(trie, inputCode)))
             /\ \A path \in DOMAIN trie :
                   \E shown \in {WithCode(results, path)} :
                      /\ shown # << >> => StartsWith(path, inputCode)
                      /\ shown = SubSeq(trie[path].characters, 1, Len(shown))
                      /\ (Len(shown) < Len(trie[path].characters)
                            /\ StartsWith(path, inputCode))
                            => \A i \in 1..Len(results) : LexLeq(results[i].code, path)
             /\ \A i \in 1..Len(results) : results[i].code \in DOMAIN trie

\* C7 witness: 100 results shown of more than 100 matches
C7_Witness ==
    /\ trie # NoTrie
    /\ Len(results) = 100
    /\ Cardinality(MatchPlaces(trie, inputCode)) > 100

-----------------------------------------------------------------------------
(* The application: the claims about the ingestion attempts *)

\* The texts in which the detection finds no code column
UndetectedTexts == {text \in AppTexts : Hits(RawColumns(text)) = {}}

\* The detection finds no code column in the text
Undetected(text) == text \in UndetectedTexts

\* handler(text) is a completion of an ingestion attempt on the text
Completes(text) == FetchResolve(text) \/ ReaderLoad(text)

\* C8: an ingestion attempt that fails publishes nothing: the index and the
\* accepted count stay as they were, and the attempt ends with an error
\* description, loading cleared and the manual input requested.
C8_FailurePublishesNothing ==
    [][\A text \in AppTexts :
          (Completes(text) /\ Undetected(text)) =>
              /\ trie' = trie
              /\ datasetSize' = datasetSize
              /\ error' \notin {Null, ""}
              /\ loading' = FALSE
              /\ showUploader' = TRUE]_vars

\* C8 witness: a failed attempt after a successful one, whose index is kept
C8_Witness ==
    /\ lastText # NoText /\ Undetected(lastText)
    /\ error = DetectError
    /\ trie # NoTrie
    /\ datasetSize > 0

\* The code column and the trimmed rows of each text where one is detected
DetectedRows ==
    [text \in AppTexts \ UndetectedTexts |->
        LET hits  == Hits(RawColumns(text))
            first == CHOOSE h \in hits : \A g \in hits : Earlier(h, g)
        IN  [codeIndex |-> first[2], rows |-> RowColumns(text)]]

\* The index t is the one of the text: its valid rows, each under its code
IndexOf(t, text) ==
    \E d \in {DetectedRows[text]} :
        /\ \A i \in 1..Len(d.rows) :
              ValidRow(d.rows[i], d.codeIndex) => d.rows[i][d.codeIndex + 1] \in DOMAIN t
        /\ \A path \in DOMAIN t :
              t[path].characters = RecordsOf(d.rows, d.codeIndex, path)

\* C9: a successful ingestion replaces the index and the accepted count
\* together by its own and clears the error and the request for manual input,
\* so the published count is always the count of the published index.
C9_SuccessReplacesTogether ==
    /\ [][\A text \in AppTexts :
            (Completes(text) /\ ~Undetected(text)) =>
                /\ IndexOf(trie', text)
                /\ datasetSize' = Cardinality(MatchPlaces(trie', << >>))
                /\ error' = Null
                /\ showUploader' = FALSE]_vars
    /\ [](datasetSize = IF trie = NoTrie THEN 0
                        ELSE Cardinality(MatchPlaces(trie, << >>)))

\* C9 witness: a successful upload, hence after a failure, with another read
\* still in flight
C9_Witness ==
    /\ trie # NoTrie /\ datasetSize > 0
    /\ error = Null /\ ~showUploader
    /\ fetchState = "done"
    /\ reads # EmptyBag

\* The application with every attempt in flight coming to an end: the fetch
\* settles, and a read loads or fails
SpecLive ==
    /\ Init /\ [][Next]_vars
    /\ WF_vars((\E text \in AppTexts : FetchResolve(text)) \/ FetchReject)
    /\ \A text \in AppTexts : WF_vars(ReaderLoad(text) \/ ReaderFail(text))

\* C10: every attempt that enters Loading leaves it, in Ready or Failed, also
\* when its source fails: the application never stays in Loading for ever.
C10_LoadingEnds == loading ~> ~loading

====
